---- MODULE Spec2Model ----
(***************************************************************************)
(* Model of src/data.py (jespr): the ESM record store and its length       *)
(* filter, the length-bucketed batch sampler (ESMBatchSampler), the        *)
(* dual-modality collate function, and the constructors of the dataset     *)
(* classes with the file accesses they perform.                            *)
(*                                                                         *)
(* A record is modelled by its position in the loaded archive (id) and the *)
(* length of its "seq" string (len). Python lists are sequences; Python    *)
(* list indices (0-based) are kept as the values stored in bins/batches.   *)
(***************************************************************************)
EXTENDS Integers, Sequences, FiniteSets, TLC

\* ---- bounds of the model ------------------------------------------------
MaxRecords == 3      \* records in the loaded archive
MaxLen == 3          \* longest sequence length of a loaded record
MaxBinSize == 2      \* largest sampler["bin_size"]
MaxBatchSize == 2    \* largest batch_size
MaxCalls == 1        \* dataset constructor calls in one run
MaxCollate == 2      \* items in a batch handed to collate_fn

VARIABLES
    pc,        \* position of the run: in the constructors, in an iteration pass
    args,      \* Namespace: min_seq_len, max_seq_len, bin_size, batch_size
    loaded,    \* the unpickled archive (ESMDataset.data before filter_data)
    data,      \* ESMDataset.data / ESMBatchSampler.data
    binKeys,   \* keys of ESMBatchSampler.bins in dict insertion order
    bins,      \* ESMBatchSampler.bins: bin start -> list of data indices
    batches,   \* ESMBatchSampler.batches
    itPos,     \* position of the running generator of __iter__
    yielded,   \* batches yielded by the current pass, in order
    completed, \* a pass over this sampler has run to its StopIteration
    err,       \* exception raised, "none" if none
    log,       \* dataset constructor calls made so far, with their I/O events
    rhl,       \* the RemoteHomologyLightning module: its label, the datasets
               \* set up and the calls made on it, with their I/O events
    batch,     \* the list of dataset items handed to collate_fn
    esm2_in,   \* argument collate_fn passed to esm2_batch_converter
    esm_if_in  \* argument collate_fn passed to esm_if_batch_converter

samplerVars == <<binKeys, bins, batches, itPos, yielded, completed>>
loadVars == <<log, rhl>>
collateVars == <<batch, esm2_in, esm_if_in>>

vars == <<pc, args, loaded, data, binKeys, bins, batches, itPos, yielded, completed, err,
          log, rhl, batch, esm2_in, esm_if_in>>

\* ---- helpers -------------------------------------------------------------
Range(s) == {s[i] : i \in 1..Len(s)}

Min2(a, b) == IF a < b THEN a ELSE b

\* number of occurrences of x in the sequence s
Count(x, s) == Cardinality({i \in 1..Len(s) : s[i] = x})

RECURSIVE Concat(_)
Concat(ss) == IF ss = <<>> THEN <<>> ELSE Head(ss) \o Concat(Tail(ss))

ShufflesWithRepeat(s) ==
    LET n == Len(s)
    IN {[i \in 1..n |-> s[p[i]]] : p \in [1..n -> 1..n]}

\* all orders random.shuffle can leave the list s in
Shuffles(s) ==
    LET n == Len(s)
        P == {p \in [1..n -> 1..n] : \A i, j \in 1..n : p[i] = p[j] => i = j}
    IN {[i \in 1..n |-> s[p[i]]] : p \in P}

\* Python range(start, stop, step) for step # 0, as a sequence
PyRangeFloor(start, stop, step) ==
    LET n == IF step > 0
             THEN (IF stop > start THEN (stop - start) \div step ELSE 0)
             ELSE (IF start > stop THEN (start - stop) \div (-step) ELSE 0)
    IN [j \in 1..n |-> start + (j - 1) * step]

PyRange(start, stop, step) ==
    LET n == IF step > 0
             THEN (IF stop > start THEN (stop - start + step - 1) \div step ELSE 0)
             ELSE (IF start > stop THEN (start - stop - step - 1) \div (-step) ELSE 0)
    IN [j \in 1..n |-> start + (j - 1) * step]

\* ---- ESMDataset.filter_data ---------------------------------------------
KeepRecordStrict(item, max_seq_len, min_seq_len) ==
    item.len < max_seq_len /\ item.len >= min_seq_len

KeepRecord(item, max_seq_len, min_seq_len) ==
    item.len <= max_seq_len /\ item.len >= min_seq_len

RECURSIVE FilterList(_, _, _)
FilterList(items, max_seq_len, min_seq_len) ==
    IF items = <<>> THEN <<>>
    ELSE (IF KeepRecord(Head(items), max_seq_len, min_seq_len)
          THEN <<Head(items)>> ELSE <<>>)
         \o FilterList(Tail(items), max_seq_len, min_seq_len)

filter_data ==
    /\ pc = "loaded"
    /\ data' = FilterList(loaded, args.max_seq_len, args.min_seq_len)
    /\ pc' = "filtered"
    /\ UNCHANGED <<args, loaded, err, samplerVars, loadVars, collateVars>>

\* ---- ESMBatchSampler.create_bins ----------------------------------------
\* the inner loop of create_bins: the first bin (in key order) that takes
\* data_len, 0 standing for "no bin" (the loop ends without a break)
BinMatchesAbove(data_len, bin_idx, bin_size) ==
    data_len > bin_idx /\ data_len < bin_idx + bin_size

BinMatchesWide(data_len, bin_idx, bin_size) ==
    data_len >= bin_idx /\ data_len <= bin_idx + bin_size

BinMatches(data_len, bin_idx, bin_size) ==
    data_len >= bin_idx /\ data_len < bin_idx + bin_size

RECURSIVE FirstBin(_, _, _, _)
FirstBin(keys, j, data_len, bin_size) ==
    IF j > Len(keys) THEN 0
    ELSE IF BinMatches(data_len, keys[j], bin_size) THEN j
    ELSE FirstBin(keys, j + 1, data_len, bin_size)

\* the outer loop: bins after the first n records have been placed
RECURSIVE AssignBins(_, _, _, _)
AssignBins(keys, items, n, bin_size) ==
    IF n = 0 THEN [k \in Range(keys) |-> <<>>]
    ELSE LET prev == AssignBins(keys, items, n - 1, bin_size)
             j == FirstBin(keys, 1, items[n].len, bin_size)
         IN IF j = 0 THEN prev
            ELSE [prev EXCEPT ![keys[j]] = Append(@, n - 1)]

\* every outcome of shuffling each bin's list independently
RECURSIVE ShuffledBins(_, _)
ShuffledBins(keys, assigned) ==
    IF keys = <<>> THEN {<<>>}
    ELSE {(Head(keys) :> p) @@ f :
            p \in Shuffles(assigned[Head(keys)]),
            f \in ShuffledBins(Tail(keys), assigned)}

create_bins ==
    /\ pc = "filtered"
    /\ IF args.bin_size = 0
       THEN /\ err' = "ValueError"
            /\ pc' = "failed"
            /\ UNCHANGED <<binKeys, bins>>
       ELSE LET keys == PyRange(args.min_seq_len, args.max_seq_len, args.bin_size)
            IN /\ binKeys' = keys
               /\ bins' \in ShuffledBins(keys, AssignBins(keys, data, Len(data), args.bin_size))
               /\ pc' = "binned"
               /\ err' = err
    /\ UNCHANGED <<args, loaded, data, batches, itPos, yielded, completed, loadVars, collateVars>>

\* ---- ESMBatchSampler.create_batches -------------------------------------
RECURSIVE Flatten(_, _)
Flatten(keys, b) ==
    IF keys = <<>> THEN <<>> ELSE b[Head(keys)] \o Flatten(Tail(keys), b)

\* Python slice s[i : i + n] for 0 <= i, n > 0
Slice(s, i, n) == SubSeq(s, i + 1, Min2(i + n, Len(s)))

AllBatches(flat, batch_size) ==
    LET starts == PyRange(0, Len(flat), batch_size)
    IN [j \in 1..Len(starts) |-> Slice(flat, starts[j], batch_size)]

create_batches ==
    /\ pc = "binned"
    /\ IF args.batch_size = 0
       THEN /\ err' = "ValueError"
            /\ pc' = "failed"
            /\ UNCHANGED batches
       ELSE /\ batches' \in Shuffles(AllBatches(Flatten(binKeys, bins), args.batch_size))
            /\ pc' = "ready"
            /\ err' = err
    /\ UNCHANGED <<args, loaded, data, binKeys, bins, itPos, yielded, completed, loadVars, collateVars>>

\* ---- ESMBatchSampler.__iter__ / __len__ ---------------------------------
SamplerLen == Len(batches)

\* the generator's loop condition: another batch is left to yield
IterHasNextShort(pos, bs) == pos + 1 < Len(bs)

IterHasNext(pos, bs) == pos < Len(bs)

\* iter(sampler) over a one-shot iterator: a later pass resumes where the
\* earlier one stopped
IterStartOneShot ==
    /\ pc \in {"ready", "exhausted"}
    /\ itPos' = itPos
    /\ yielded' = <<>>
    /\ pc' = "iterating"
    /\ UNCHANGED <<args, loaded, data, binKeys, bins, batches, completed, err,
                   loadVars, collateVars>>

\* iter(sampler): a fresh generator over self.batches, on a sampler that has
\* no generator running
IterStart ==
    /\ pc \in {"ready", "exhausted"}
    /\ itPos' = 0
    /\ yielded' = <<>>
    /\ pc' = "iterating"
    /\ UNCHANGED <<args, loaded, data, binKeys, bins, batches, completed, err,
                   loadVars, collateVars>>

\* next(generator) that yields a batch
IterYield ==
    /\ pc = "iterating"
    /\ IterHasNext(itPos, batches)
    /\ yielded' = Append(yielded, batches[itPos + 1])
    /\ itPos' = itPos + 1
    /\ UNCHANGED <<pc, args, loaded, data, binKeys, bins, batches, completed, err,
                   loadVars, collateVars>>

\* next(generator) that ends the loop: StopIteration
IterStop ==
    /\ pc = "iterating"
    /\ ~IterHasNext(itPos, batches)
    /\ pc' = "exhausted"
    /\ completed' = TRUE
    /\ UNCHANGED <<args, loaded, data, binKeys, bins, batches, itPos, yielded, err,
                   loadVars, collateVars>>

\* ---- the sampler pipeline -----------------------------------------------
Records(n) == [1..n -> 1..MaxLen]

Stores == UNION {{[i \in 1..n |-> [id |-> i, len |-> f[i]]] : f \in Records(n)} : n \in 0..MaxRecords}

MinSeqLens == {1, 2}

ArgSets == [min_seq_len : MinSeqLens, max_seq_len : 1..MaxLen,
            bin_size : 1..MaxBinSize, batch_size : 1..MaxBatchSize]

\* nothing constructed, nothing collated
Idle ==
    /\ binKeys = <<>>
    /\ bins = <<>>
    /\ batches = <<>>
    /\ itPos = 0
    /\ yielded = <<>>
    /\ completed = FALSE
    /\ err = "none"
    /\ log = <<>>
    /\ rhl = [made |-> FALSE, label |-> "", sets |-> {}, calls |-> <<>>]
    /\ batch = <<>>
    /\ esm2_in = <<>>
    /\ esm_if_in = <<>>

\* the archive has been unpickled in ESMDataset.__init__
Init ==
    /\ pc = "loaded"
    /\ args \in ArgSets
    /\ loaded \in Stores
    /\ data = loaded
    /\ Idle

\* ESMDataset.__init__ from filter_data on, then ESMBatchSampler.__init__
Next ==
    \/ filter_data
    \/ create_bins
    \/ create_batches

Spec == Init /\ [][Next]_vars

\* ---- iteration over a constructed sampler -------------------------------
\* ESMBatchSampler(data, args) has returned: the bins and batches are those
\* create_bins and create_batches leave, for some outcome of the shuffles
InitIter ==
    \E a \in ArgSets, st \in Stores :
        LET d == FilterList(st, a.max_seq_len, a.min_seq_len)
            keys == PyRange(a.min_seq_len, a.max_seq_len, a.bin_size)
        IN \E b \in ShuffledBins(keys, AssignBins(keys, d, Len(d), a.bin_size)) :
           \E bt \in Shuffles(AllBatches(Flatten(keys, b), a.batch_size)) :
              /\ pc = "ready"
              /\ args = a
              /\ loaded = st
              /\ data = d
              /\ binKeys = keys
              /\ bins = b
              /\ batches = bt
              /\ itPos = 0
              /\ yielded = <<>>
              /\ completed = FALSE
              /\ err = "none"
              /\ log = <<>>
              /\ rhl = [made |-> FALSE, label |-> "", sets |-> {}, calls |-> <<>>]
              /\ batch = <<>>
              /\ esm2_in = <<>>
              /\ esm_if_in = <<>>

NextIter ==
    \/ IterStart
    \/ IterYield
    \/ IterStop

SpecIter == InitIter /\ [][NextIter]_vars

\* ---- properties of the sampler pipeline ---------------------------------
SeqLen(i) == data[i + 1].len
Indices == 0..(Len(data) - 1)

Binned == pc \in {"binned", "ready", "iterating", "exhausted"}
Batched == pc \in {"ready", "iterating", "exhausted"}

InSomeBin(i) == \E k \in Range(binKeys) : Count(i, bins[k]) > 0
InSomeBatch(i) == \E b \in 1..Len(batches) : Count(i, batches[b]) > 0

\* C1: every batch produced by create_batches has exactly batch_size
\* elements (a shorter trailing remainder never appears as a batch).
C1_BatchesFull ==
    Batched => \A b \in 1..Len(batches) : Len(batches[b]) = args.batch_size

\* C2: batch completeness: as multisets, the indices of all batches are the
\* binned indices (bins concatenated in key order) without the trailing
\* remainder of fewer than batch_size indices.
C2_BatchCompleteness ==
    Batched =>
        LET flat == Flatten(binKeys, bins)
            kept == SubSeq(flat, 1, Len(flat) - (Len(flat) % args.batch_size))
        IN \A i \in Indices : Count(i, Concat(batches)) = Count(i, kept)

\* C3: bin coverage: after create_bins every record of the filtered store
\* with min_seq_len <= len < max_seq_len has its index in exactly one bin,
\* exactly once.
C3_BinCoverage ==
    Binned =>
        \A i \in Indices :
            (args.min_seq_len <= SeqLen(i) /\ SeqLen(i) < args.max_seq_len) =>
                /\ Cardinality({k \in Range(binKeys) : Count(i, bins[k]) > 0}) = 1
                /\ \A k \in Range(binKeys) : Count(i, bins[k]) <= 1

C3_Witness ==
    /\ pc = "binned"
    /\ Len(binKeys) >= 2
    /\ \E i, j \in Indices :
        /\ i # j
        /\ SeqLen(i) < args.max_seq_len /\ SeqLen(j) < args.max_seq_len
        /\ Count(i, bins[binKeys[1]]) = 1
        /\ Count(j, bins[binKeys[2]]) = 1

\* C4: after filter_data a loaded record is retained iff
\* min_seq_len <= len <= max_seq_len, retained records keep their relative
\* order, and min_seq_len > max_seq_len gives an empty store and no error.
C4_FilterCorrect ==
    pc = "filtered" =>
        /\ \A r \in Range(loaded) :
              (Count(r, data) = 1) <=>
                  (args.min_seq_len <= r.len /\ r.len <= args.max_seq_len)
        /\ \A r \in Range(data) : r \in Range(loaded)
        /\ \A i, j \in 1..Len(data) : i < j => data[i].id < data[j].id
        /\ (args.min_seq_len > args.max_seq_len) => (data = <<>> /\ err = "none")

C4_Witness ==
    /\ pc = "filtered"
    /\ Len(data) >= 2
    /\ Len(data) < Len(loaded)
    /\ \E r \in Range(data) : r.len = args.max_seq_len
    /\ \E r \in Range(loaded) : r.len > args.max_seq_len

\* C6: one pass of iteration yields the stored batches in order, each exactly
\* once, len(sampler) of them, then ends without an error; len(sampler) is
\* the number of batches create_batches produced.
C6_OnePass ==
    /\ pc = "iterating" => yielded = SubSeq(batches, 1, itPos)
    /\ pc = "exhausted" =>
          /\ yielded = batches
          /\ Len(yielded) = SamplerLen
          /\ err = "none"
    /\ Batched =>
          SamplerLen = Len(AllBatches(Flatten(binKeys, bins), args.batch_size))

C6_Witness ==
    /\ pc = "exhausted"
    /\ Len(yielded) >= 2
    /\ yielded[1] # yielded[2]

\* number of bins of width bin_size (>= 1) needed to cover [lo, hi)
NumBins(lo, hi, bin_size) ==
    IF hi > lo THEN (hi - lo + bin_size - 1) \div bin_size ELSE 0

\* C9 (as stated): the bins tile exactly [min_seq_len, max_seq_len): a record
\* is in a bin iff min_seq_len <= len < max_seq_len, and a record of length
\* max_seq_len is in no bin and in no batch.
C9_TilesExactly ==
    Binned =>
        \A i \in Indices :
            /\ InSomeBin(i) <=>
                  (args.min_seq_len <= SeqLen(i) /\ SeqLen(i) < args.max_seq_len)
            /\ (SeqLen(i) = args.max_seq_len) =>
                  (~InSomeBin(i) /\ (Batched => ~InSomeBatch(i)))

\* C9 (amended): the bins tile [min_seq_len, min_seq_len + n * bin_size) with
\* n = ceil((max_seq_len - min_seq_len) / bin_size) bins of width bin_size, a
\* range that contains [min_seq_len, max_seq_len) and overshoots it by less
\* than bin_size; a record is in a bin iff its length is in that range, so a
\* record of length max_seq_len is in no bin exactly when bin_size divides
\* max_seq_len - min_seq_len, and otherwise is in the last bin and in a batch.
C9_TilesCovering ==
    Binned =>
        LET n == NumBins(args.min_seq_len, args.max_seq_len, args.bin_size)
            top == args.min_seq_len + n * args.bin_size
        IN /\ Range(binKeys) = {args.min_seq_len + j * args.bin_size : j \in 0..(n - 1)}
           /\ n > 0 => (args.max_seq_len <= top /\ top < args.max_seq_len + args.bin_size)
           /\ \A i \in Indices :
                /\ InSomeBin(i) <=> (args.min_seq_len <= SeqLen(i) /\ SeqLen(i) < top)
                /\ (SeqLen(i) = args.max_seq_len) =>
                      (InSomeBin(i) <=>
                          ((args.max_seq_len - args.min_seq_len) % args.bin_size # 0))
                /\ (SeqLen(i) = args.max_seq_len /\ InSomeBin(i)) =>
                      /\ Count(i, bins[binKeys[Len(binKeys)]]) = 1
                      /\ Batched => InSomeBatch(i)

C9_Witness ==
    /\ Batched
    /\ Len(data) >= 2
    /\ \E i \in Indices :
        /\ SeqLen(i) = args.max_seq_len
        /\ InSomeBin(i)
        /\ InSomeBatch(i)

\* C10: bin membership is by length and survives the shuffle: every index
\* stored under bin start k has k <= len < k + bin_size, the bin starts are
\* exactly min_seq_len, min_seq_len + bin_size, ... below max_seq_len in
\* that order, and each bin's list holds, once each, exactly the indices
\* whose length falls in the bin.
C10_BinMembership ==
    Binned =>
        /\ \A k \in Range(binKeys) : \A p \in 1..Len(bins[k]) :
              k <= SeqLen(bins[k][p]) /\ SeqLen(bins[k][p]) < k + args.bin_size
        /\ DOMAIN bins = {k \in args.min_seq_len..(args.max_seq_len - 1) :
                             (k - args.min_seq_len) % args.bin_size = 0}
        /\ Range(binKeys) = DOMAIN bins
        /\ \A p, q \in 1..Len(binKeys) : p < q => binKeys[p] < binKeys[q]
        /\ \A k \in Range(binKeys) :
              /\ Range(bins[k]) =
                    {i \in Indices : k <= SeqLen(i) /\ SeqLen(i) < k + args.bin_size}
              /\ \A i \in Range(bins[k]) : Count(i, bins[k]) = 1

\* a bin whose shuffled list is not in index order
C10_Witness ==
    /\ pc = "binned"
    /\ Len(binKeys) >= 2
    /\ \E k \in Range(binKeys) :
          Len(bins[k]) >= 2 /\ bins[k][1] > bins[k][2]

\* the list of batches ESMBatchSampler.__init__ leaves for this data and these
\* args in the outcome where every shuffle leaves its list in order; random
\* shuffling can produce this outcome like any other
InOrderBatches ==
    LET keys == PyRange(args.min_seq_len, args.max_seq_len, args.bin_size)
    IN AllBatches(Flatten(keys, AssignBins(keys, data, Len(data), args.bin_size)),
                  args.batch_size)

BatchSets(bt) == {Range(bt[j]) : j \in 1..Len(bt)}
BatchedIndices(bt) == UNION BatchSets(bt)
BatchesOfSize(bt, n) == Cardinality({j \in 1..Len(bt) : Len(bt[j]) = n})

\* C11 (as stated): for a fixed store and fixed args the set of batches, each
\* batch taken as a set of indices, is the same for every outcome of the
\* shuffles: every outcome has the set of batches of the in-order outcome.
C11_BatchSetFixed ==
    pc = "ready" => BatchSets(batches) = BatchSets(InOrderBatches)

\* C11 (amended): for a fixed store and fixed args the set of indices that
\* appear in batches, the number of batches and the sizes of the batches are
\* the same for every outcome of the shuffles (every outcome has those of the
\* in-order outcome); which indices share a batch depends on the order the
\* shuffle leaves inside each bin.
C11_BatchedIndicesFixed ==
    pc = "ready" =>
        /\ BatchedIndices(batches) = BatchedIndices(InOrderBatches)
        /\ Len(batches) = Len(InOrderBatches)
        /\ \A n \in 1..args.batch_size :
              BatchesOfSize(batches, n) = BatchesOfSize(InOrderBatches, n)

\* an outcome of the shuffles that groups the same indices into other batches
\* than the in-order outcome does
C11_Witness ==
    /\ pc = "ready"
    /\ Len(batches) >= 2
    /\ BatchSets(batches) # BatchSets(InOrderBatches)
    /\ BatchedIndices(batches) = BatchedIndices(InOrderBatches)

\* the start of the bin that holds index i
BinOf(i) == CHOOSE k \in Range(binKeys) : Count(i, bins[k]) > 0

\* C12 (as stated): in every batch the longest and the shortest sequence
\* differ in length by at most bin_size - 1.
C12_SlackWithinBinSize ==
    pc = "ready" =>
        \A b \in 1..Len(batches) : \A i, j \in Range(batches[b]) :
            SeqLen(i) - SeqLen(j) <= args.bin_size - 1

\* C12 (amended): two records of a batch that come from the same bin differ
\* in length by at most bin_size - 1; a batch is a slice of the concatenated
\* bins and may span several bins, and two of its records then differ by at
\* most the distance of their bin starts plus bin_size - 1.
C12_SlackWithinBins ==
    pc = "ready" =>
        \A b \in 1..Len(batches) : \A i, j \in Range(batches[b]) :
            /\ InSomeBin(i) /\ InSomeBin(j)
            /\ SeqLen(i) - SeqLen(j) <= (BinOf(i) - BinOf(j)) + args.bin_size - 1
            /\ BinOf(i) = BinOf(j) => SeqLen(i) - SeqLen(j) <= args.bin_size - 1

\* a batch that spans two bins and has more slack than bin_size - 1
C12_Witness ==
    /\ pc = "ready"
    /\ \E b \in 1..Len(batches) : \E i, j \in Range(batches[b]) :
          /\ BinOf(i) # BinOf(j)
          /\ SeqLen(i) - SeqLen(j) > args.bin_size - 1

\* C13 (as stated): the sampler is not restartable: once a full pass has
\* completed, a further iteration over the same sampler yields no batches.
C13_NotRestartable ==
    (completed /\ pc = "iterating") =>
        (yielded = <<>> /\ ~IterHasNext(itPos, batches))

\* C13 (amended): the sampler is restartable: every call of __iter__ makes a
\* fresh generator over the stored batches, so a pass started after a
\* completed pass yields the same batches again, in the same order, and then
\* stops; only a new sampler gives a new shuffle.
C13_Restartable ==
    completed =>
        /\ pc \in {"iterating", "exhausted"}
        /\ pc = "iterating" =>
              /\ yielded = SubSeq(batches, 1, itPos)
              /\ IterHasNext(itPos, batches) <=> yielded # batches
        /\ pc = "exhausted" => yielded = batches
        /\ Len(batches) = Len(AllBatches(Flatten(binKeys, bins), args.batch_size))

\* a second pass that has yielded every batch again
C13_Witness ==
    /\ completed
    /\ pc = "iterating"
    /\ Len(batches) >= 2
    /\ yielded = batches

\* ---- construction with sizes that are not positive -----------------------
NonPositiveSizes == {-1, 0}

CfgArgSets == [min_seq_len : MinSeqLens, max_seq_len : 1..MaxLen,
               bin_size : NonPositiveSizes \cup 1..MaxBinSize,
               batch_size : NonPositiveSizes \cup 1..MaxBatchSize]

InitCfg ==
    /\ pc = "loaded"
    /\ args \in CfgArgSets
    /\ loaded \in Stores
    /\ data = loaded
    /\ Idle

SpecCfg == InitCfg /\ [][Next]_vars

\* C14: a sampler given a bin_size or a batch_size that is zero or negative
\* raises during construction: create_bins does not return with such a
\* bin_size, and construction never completes with such a bin_size or
\* batch_size.
C14_NonPositiveRejected ==
    /\ pc = "binned" => args.bin_size >= 1
    /\ pc = "ready" => (args.bin_size >= 1 /\ args.batch_size >= 1)

\* ---- dataset constructors and their file accesses -----------------------
DatasetNames == {"cath", "pdb"}
ESMSplits == {"train", "val", "test"}
RHSplits == {"train", "val", "test_family_holdout", "test_superfamily_holdout",
             "test_fold_holdout"}
Labels == {"family", "superfamily", "fold", "class"}
TaskSplits == {"train", "val", "test"}

\* values the callers may pass
SplitInputs == {"train", "val", "test", "test_fold_holdout", "bogus"}
LabelInputs == Labels \cup {"bogus"}
NameInputs == DatasetNames \cup {"bogus"}
Stages == {"fit", "test", "predict"}

Open(dir, split) == [ev |-> "open", arg |-> <<dir, split>>]
Load(dir, split) == [ev |-> "load", arg |-> <<dir, split>>]
Raise(exc, msg) == [ev |-> "raise", arg |-> <<exc, msg>>]

\* open(path, "rb") followed by pickle.load: the file is there or it is not
OpenAndLoad(dir, split, exists) ==
    IF exists THEN <<Open(dir, split), Load(dir, split)>>
    ELSE <<Open(dir, split), Raise("FileNotFoundError", "")>>

Call(cls, split, label, name, events) ==
    [cls |-> cls, split |-> split, label |-> label, name |-> name,
     events |-> events,
     ok |-> (events = <<>> \/ events[Len(events)].ev # "raise")]

\* ESMDataset.__init__ up to pickle.load
ESMDatasetNew(split, dataset_name, exists) ==
    Call("ESMDataset", split, "", dataset_name,
         IF dataset_name \notin DatasetNames
         THEN <<Raise("AssertionError", "Invalid Dataset Name")>>
         ELSE OpenAndLoad(dataset_name, split, exists))

\* RemoteHomologyDataset.__init__
RemoteHomologyEvents(split, label_to_predict, exists) ==
    IF split \notin RHSplits THEN <<Raise("AssertionError", "Invalid Split")>>
    ELSE IF ~exists THEN OpenAndLoad("remote_homology", split, exists)
    ELSE IF label_to_predict \notin Labels
    THEN OpenAndLoad("remote_homology", split, exists)
            \o <<Raise("AssertionError", "Invalid label")>>
    ELSE OpenAndLoad("remote_homology", split, exists)

RemoteHomologyDatasetNew(split, label_to_predict, exists) ==
    Call("RemoteHomologyDataset", split, label_to_predict, "",
         RemoteHomologyEvents(split, label_to_predict, exists))

\* StabilityDataset.__init__ ("stability") and FluoroscenceDataset.__init__
\* ("fluoroscence")
TaskEvents(dir, split, exists) ==
    IF split \notin TaskSplits THEN <<Raise("AssertionError", "Invalid Split")>>
    ELSE OpenAndLoad(dir, split, exists)

StabilityDatasetNew(split, exists) ==
    Call("StabilityDataset", split, "", "", TaskEvents("stability", split, exists))

FluoroscenceDatasetNew(split, exists) ==
    Call("FluoroscenceDataset", split, "", "", TaskEvents("fluoroscence", split, exists))

\* the archive every present file unpickles to
ArchiveContent == [i \in 1..MaxRecords |-> [id |-> i, len |-> ((i - 1) % MaxLen) + 1]]

\* ESMDataset(split, args); has_max is "args.max_seq_len is not None"
ESMDatasetInit ==
    /\ pc = "io"
    /\ Len(log) < MaxCalls
    /\ \E split \in SplitInputs, dataset_name \in NameInputs, exists, has_max \in BOOLEAN :
        LET c == ESMDatasetNew(split, dataset_name, exists)
        IN /\ log' = Append(log, c)
           /\ IF c.ok
              THEN /\ loaded' = ArchiveContent
                   /\ data' = IF has_max
                              THEN FilterList(ArchiveContent, args.max_seq_len, args.min_seq_len)
                              ELSE ArchiveContent
              ELSE UNCHANGED <<loaded, data>>
    /\ UNCHANGED <<pc, args, err, samplerVars, rhl, collateVars>>

RemoteHomologyDatasetInit ==
    /\ pc = "io"
    /\ Len(log) < MaxCalls
    /\ \E split \in SplitInputs, label \in LabelInputs, exists \in BOOLEAN :
        log' = Append(log, RemoteHomologyDatasetNew(split, label, exists))
    /\ UNCHANGED <<pc, args, loaded, data, err, samplerVars, rhl, collateVars>>

StabilityDatasetInit ==
    /\ pc = "io"
    /\ Len(log) < MaxCalls
    /\ \E split \in SplitInputs, exists \in BOOLEAN :
        log' = Append(log, StabilityDatasetNew(split, exists))
    /\ UNCHANGED <<pc, args, loaded, data, err, samplerVars, rhl, collateVars>>

FluoroscenceDatasetInit ==
    /\ pc = "io"
    /\ Len(log) < MaxCalls
    /\ \E split \in SplitInputs, exists \in BOOLEAN :
        log' = Append(log, FluoroscenceDatasetNew(split, exists))
    /\ UNCHANGED <<pc, args, loaded, data, err, samplerVars, rhl, collateVars>>

\* ---- RemoteHomologyLightning --------------------------------------------
Called(cls) == \E i \in 1..Len(rhl.calls) : rhl.calls[i].cls = cls

\* __init__: stores args and fetches the batch converter
RemoteHomologyLightningInit ==
    /\ pc = "io"
    /\ ~rhl.made
    /\ \E label \in LabelInputs :
        rhl' = [made |-> TRUE, label |-> label, sets |-> {},
                calls |-> <<Call("RemoteHomologyLightning", "", label, "", <<>>)>>]
    /\ UNCHANGED <<pc, args, loaded, data, err, samplerVars, log, collateVars>>

SetupSplits(stage) ==
    IF stage = "fit" THEN <<"train", "val">>
    ELSE IF stage = "test"
    THEN <<"test_family_holdout", "test_superfamily_holdout", "test_fold_holdout">>
    ELSE <<>>

\* the datasets setup constructs one after the other; the first constructor
\* that raises ends setup
RECURSIVE SetupRun(_, _, _)
SetupRun(splits, label, ex) ==
    IF splits = <<>> THEN [events |-> <<>>, sets |-> {}]
    ELSE LET c == RemoteHomologyDatasetNew(Head(splits), label, ex[Head(splits)])
         IN IF ~c.ok THEN [events |-> c.events, sets |-> {}]
            ELSE LET rest == SetupRun(Tail(splits), label, ex)
                 IN [events |-> c.events \o rest.events,
                     sets |-> {Head(splits)} \cup rest.sets]

\* setup(stage), called once on the module
RemoteHomologyLightningSetup ==
    /\ pc = "io"
    /\ rhl.made
    /\ ~Called("RemoteHomologyLightning.setup")
    /\ \E stage \in Stages, ex \in [RHSplits -> BOOLEAN] :
        LET r == SetupRun(SetupSplits(stage), rhl.label, ex)
        IN rhl' = [rhl EXCEPT !.sets = @ \cup r.sets,
                              !.calls = Append(@, Call("RemoteHomologyLightning.setup",
                                                       stage, rhl.label, "", r.events))]
    /\ UNCHANGED <<pc, args, loaded, data, err, samplerVars, log, collateVars>>

\* train_dataloader: the first request for batches
RemoteHomologyLightningTrainDataloader ==
    /\ pc = "io"
    /\ rhl.made
    /\ ~Called("RemoteHomologyLightning.train_dataloader")
    /\ rhl' = [rhl EXCEPT !.calls =
                  Append(@, Call("RemoteHomologyLightning.train_dataloader", "",
                                 rhl.label, "",
                                 IF "train" \in rhl.sets
                                 THEN <<[ev |-> "dataloader", arg |-> <<"train">>]>>
                                 ELSE <<Raise("AttributeError", "train_dataset")>>))]
    /\ UNCHANGED <<pc, args, loaded, data, err, samplerVars, log, collateVars>>

LoadArgs == {a \in ArgSets : a.bin_size = 1 /\ a.batch_size = 1 /\ a.min_seq_len = 2}

InitLoad ==
    /\ pc = "io"
    /\ args \in LoadArgs
    /\ loaded = <<>>
    /\ data = <<>>
    /\ Idle

NextLoad ==
    \/ ESMDatasetInit
    \/ RemoteHomologyDatasetInit
    \/ StabilityDatasetInit
    \/ FluoroscenceDatasetInit
    \/ RemoteHomologyLightningInit
    \/ RemoteHomologyLightningSetup
    \/ RemoteHomologyLightningTrainDataloader

SpecLoad == InitLoad /\ [][NextLoad]_vars

\* ---- ESMDataLoader.collate_fn -------------------------------------------
\* a dataset item is the tuple (coords, None, seq) of ESMDataset.__getitem__;
\* coords is kept as <<number of residues, tag of the structure>>
Residues == {"A", "C"}
SeqStrings == UNION {[1..n -> Residues] : n \in 1..2}
Items == {<<<<Len(q), t>>, "None", q>> : q \in SeqStrings, t \in 1..2}
Batches == UNION {[1..n -> Items] : n \in 0..MaxCollate}

InpSeqsReversed(b) == [i \in 1..Len(b) |-> <<"", b[Len(b) + 1 - i][3]>>]

\* inp_seqs = [("", item[2]) for item in batch]
InpSeqs(b) == [i \in 1..Len(b) |-> <<"", b[i][3]>>]

collate_fn ==
    /\ pc = "collate"
    /\ esm2_in' = InpSeqs(batch)
    /\ esm_if_in' = batch
    /\ pc' = "collated"
    /\ UNCHANGED <<args, loaded, data, err, samplerVars, loadVars, batch>>

InitCollate ==
    /\ pc = "collate"
    /\ args \in {a \in LoadArgs : a.max_seq_len = 1}
    /\ loaded = <<>>
    /\ data = <<>>
    /\ binKeys = <<>>
    /\ bins = <<>>
    /\ batches = <<>>
    /\ itPos = 0
    /\ yielded = <<>>
    /\ completed = FALSE
    /\ err = "none"
    /\ log = <<>>
    /\ rhl = [made |-> FALSE, label |-> "", sets |-> {}, calls |-> <<>>]
    /\ batch \in Batches
    /\ esm2_in = <<>>
    /\ esm_if_in = <<>>

NextCollate == collate_fn

SpecCollate == InitCollate /\ [][NextCollate]_vars

\* C5: modality alignment of collate_fn: both converters receive the batch's
\* records in input order and in full, so at every position b the sequence
\* given to the sequence tokenizer is the sequence of the record given to the
\* structural converter at b.
C5_ModalityAligned ==
    pc = "collated" =>
        /\ Len(esm2_in) = Len(batch)
        /\ Len(esm_if_in) = Len(batch)
        /\ \A b \in 1..Len(batch) :
              /\ esm_if_in[b] = batch[b]
              /\ esm2_in[b][2] = esm_if_in[b][3]

C5_Witness ==
    /\ pc = "collated"
    /\ Len(batch) >= 2
    /\ batch[1][3] # batch[2][3]
    /\ esm2_in[1][2] = batch[1][3]
    /\ esm2_in[2][2] = batch[2][3]

HasEvent(c, ev) == \E e \in 1..Len(c.events) : c.events[e].ev = ev

RaisedFirst(c, exc, msg) == c.events # <<>> /\ c.events[1] = Raise(exc, msg)

\* C7: a RemoteHomologyLightning constructed with a label_to_predict outside
\* {family, superfamily, fold, class} fails at construction: the constructor
\* raises, so no setup call, no file access and no batch request is ever made
\* on a module with that label.
C7_LabelRejectedAtConstruction ==
    \A i \in 1..Len(rhl.calls) :
        (rhl.calls[i].label \notin Labels) =>
            /\ rhl.calls[i].cls = "RemoteHomologyLightning"
            /\ ~rhl.calls[i].ok
            /\ ~HasEvent(rhl.calls[i], "open")

ValidSplits(cls) ==
    IF cls = "ESMDataset" THEN ESMSplits
    ELSE IF cls = "RemoteHomologyDataset" THEN RHSplits
    ELSE TaskSplits

DatasetClasses == {"ESMDataset", "RemoteHomologyDataset", "StabilityDataset",
                   "FluoroscenceDataset"}

\* C8: for every dataset class, a constructor call with a split that is not
\* one of the class's splits fails with the invalid-split error and has
\* attempted no file access.
C8_InvalidSplitBeforeIO ==
    \A i \in 1..Len(log) :
        (log[i].cls \in DatasetClasses /\ log[i].split \notin ValidSplits(log[i].cls)
           /\ (log[i].cls = "ESMDataset" => log[i].name \in DatasetNames)) =>
            /\ RaisedFirst(log[i], "AssertionError", "Invalid Split")
            /\ ~HasEvent(log[i], "open")

====
